---- MODULE Spec2Model ----
(***************************************************************************)
(* Wayfound backend: the roadmap generator (app/services/llm_service.py)   *)
(* and the GraphQL queries and mutations of app/main.py over the users and *)
(* roadmaps tables.                                                        *)
(*                                                                         *)
(* Text that the code inspects character by character (goal texts, the     *)
(* classifier's answer) is a sequence of one-character strings; text that  *)
(* the code only copies (titles, tasks, messages) is a string.             *)
(***************************************************************************)
EXTENDS Integers, Sequences, FiniteSets, TLC

VARIABLES
    client,     \* RoadmapGenerator.client is set (OPENAI_API_KEY was present)
    users,      \* rows of the users table, in insertion order
    roadmaps,   \* rows of the roadmaps table, in insertion order
    last,       \* the most recent API request and what the caller got back
    sessions,   \* storage sessions opened by a request and not closed
    call        \* a direct call of a generator method: its arguments and result

vars == <<client, users, roadmaps, last, sessions, call>>

\* ---------------------------------------------------------------- bounds

\* Largest timeline_days a direct call is given.
MaxTimeline == 64
\* Longest goal text of the enumerated short texts given to the classifier.
MaxTextLen == 4
\* Largest number of rows the users table is let grow to.
MaxUsers == 2
\* Largest number of rows the roadmaps table is let grow to.
MaxRoadmaps == 1

\* ------------------------------------------------------- Python helpers

max(a, b) == IF a >= b THEN a ELSE b
min(a, b) == IF a <= b THEN a ELSE b

\* dict.get(key, default)
Get(d, key, default) == IF key \in DOMAIN d THEN d[key] ELSE default

\* The empty dict {}.
EmptyDict == [key \in {} |-> ""]

\* A call that returned value v, and a call that raised exception exc.
Ok(v) == [raised |-> FALSE, value |-> v]
Raise(exc) == [raised |-> TRUE, exc |-> exc]

ascii_lowercase ==
    [A |-> "a", B |-> "b", C |-> "c", D |-> "d", E |-> "e", F |-> "f", G |-> "g",
     H |-> "h", I |-> "i", J |-> "j", K |-> "k", L |-> "l", M |-> "m", N |-> "n",
     O |-> "o", P |-> "p", Q |-> "q", R |-> "r", S |-> "s", T |-> "t", U |-> "u",
     V |-> "v", W |-> "w", X |-> "x", Y |-> "y", Z |-> "z"]

\* str.lower()
lower(text) ==
    [i \in 1..Len(text) |->
        IF text[i] \in DOMAIN ascii_lowercase THEN ascii_lowercase[text[i]] ELSE text[i]]

whitespace == {" ", "\n", "\t"}

\* str.strip()
strip(text) ==
    LET kept == {i \in 1..Len(text) : text[i] \notin whitespace}
        first == CHOOSE i \in kept : \A j \in kept : i <= j
        final == CHOOSE i \in kept : \A j \in kept : i >= j
    IN  IF kept = {} THEN <<>> ELSE SubSeq(text, first, final)

\* word in text
contains(word, text) ==
    \E i \in 1..(Len(text) - Len(word) + 1) : SubSeq(text, i, i + Len(word) - 1) = word

\* ---------------------------------------------------- domain classifier

valid_domains == {"cooking", "fitness", "programming", "language", "art", "general"}

\* The spelling of each domain tag.
domain_text ==
    [cooking |-> <<"c", "o", "o", "k", "i", "n", "g">>,
     fitness |-> <<"f", "i", "t", "n", "e", "s", "s">>,
     programming |-> <<"p", "r", "o", "g", "r", "a", "m", "m", "i", "n", "g">>,
     language |-> <<"l", "a", "n", "g", "u", "a", "g", "e">>,
     art |-> <<"a", "r", "t">>,
     general |-> <<"g", "e", "n", "e", "r", "a", "l">>]

cooking_words ==
    { <<"c", "o", "o", "k">>,
      <<"r", "e", "c", "i", "p", "e">>,
      <<"b", "a", "k", "e">>,
      <<"f", "o", "o", "d">>,
      <<"k", "i", "t", "c", "h", "e", "n">>,
      <<"c", "h", "e", "f">>,
      <<"r", "a", "m", "e", "n">> }

fitness_words ==
    { <<"f", "i", "t">>,
      <<"g", "y", "m">>,
      <<"w", "o", "r", "k", "o", "u", "t">>,
      <<"m", "u", "s", "c", "l", "e">>,
      <<"w", "e", "i", "g", "h", "t">>,
      <<"e", "x", "e", "r", "c", "i", "s", "e">> }

programming_words ==
    { <<"c", "o", "d", "e">>,
      <<"p", "r", "o", "g", "r", "a", "m">>,
      <<"p", "y", "t", "h", "o", "n">>,
      <<"j", "a", "v", "a", "s", "c", "r", "i", "p", "t">>,
      <<"a", "p", "p">>,
      <<"s", "o", "f", "t", "w", "a", "r", "e">> }

language_words ==
    { <<"l", "a", "n", "g", "u", "a", "g", "e">>,
      <<"s", "p", "a", "n", "i", "s", "h">>,
      <<"f", "r", "e", "n", "c", "h">>,
      <<"i", "t", "a", "l", "i", "a", "n">>,
      <<"s", "p", "e", "a", "k">> }

art_words ==
    { <<"p", "a", "i", "n", "t">>,
      <<"d", "r", "a", "w">>,
      <<"a", "r", "t">>,
      <<"s", "k", "e", "t", "c", "h">>,
      <<"c", "a", "n", "v", "a", "s">> }

\* _classify_domain_simple matching the keywords against goal_text as given.
classify_domain_simple_case_sensitive(goal_text) ==
    LET goal_lower == goal_text
    IN  IF \E word \in cooking_words : contains(word, goal_lower) THEN "cooking"
        ELSE IF \E word \in fitness_words : contains(word, goal_lower) THEN "fitness"
        ELSE IF \E word \in programming_words : contains(word, goal_lower) THEN "programming"
        ELSE IF \E word \in language_words : contains(word, goal_lower) THEN "language"
        ELSE IF \E word \in art_words : contains(word, goal_lower) THEN "art"
        ELSE "general"

\* RoadmapGenerator._classify_domain_simple
classify_domain_simple(goal_text) ==
    LET goal_lower == lower(goal_text)
    IN  IF \E word \in cooking_words : contains(word, goal_lower) THEN "cooking"
        ELSE IF \E word \in fitness_words : contains(word, goal_lower) THEN "fitness"
        ELSE IF \E word \in programming_words : contains(word, goal_lower) THEN "programming"
        ELSE IF \E word \in language_words : contains(word, goal_lower) THEN "language"
        ELSE IF \E word \in art_words : contains(word, goal_lower) THEN "art"
        ELSE "general"

\* classify_domain issuing the classification call a second time after it
\* raised.
classify_domain_retrying(has_client, goal_text, response) ==
    IF ~has_client
    THEN [domain |-> classify_domain_simple(goal_text), calls |-> 0]
    ELSE IF response.kind = "raise"
    THEN [domain |-> classify_domain_simple(goal_text), calls |-> 2]
    ELSE LET domain == lower(strip(response.content))
         IN  [domain |-> IF \E d \in valid_domains : domain_text[d] = domain
                         THEN CHOOSE d \in valid_domains : domain_text[d] = domain
                         ELSE "general",
              calls |-> 1]

\* classify_domain handing an answer outside the six domains to the keyword
\* matcher.
classify_domain_keywords_on_unknown(has_client, goal_text, response) ==
    IF ~has_client
    THEN [domain |-> classify_domain_simple(goal_text), calls |-> 0]
    ELSE IF response.kind = "raise"
    THEN [domain |-> classify_domain_simple(goal_text), calls |-> 1]
    ELSE LET domain == lower(strip(response.content))
         IN  [domain |-> IF \E d \in valid_domains : domain_text[d] = domain
                         THEN CHOOSE d \in valid_domains : domain_text[d] = domain
                         ELSE classify_domain_simple(goal_text),
              calls |-> 1]

\* RoadmapGenerator.classify_domain: the domain and the outbound calls made.
\* response is what client.chat.completions.create does for the classification
\* prompt: it raises, or it returns a message content.
classify_domain(has_client, goal_text, response) ==
    IF ~has_client
    THEN [domain |-> classify_domain_simple(goal_text), calls |-> 0]
    ELSE IF response.kind = "raise"
    THEN [domain |-> classify_domain_simple(goal_text), calls |-> 1]
    ELSE LET domain == lower(strip(response.content))
         IN  [domain |-> IF \E d \in valid_domains : domain_text[d] = domain
                         THEN CHOOSE d \in valid_domains : domain_text[d] = domain
                         ELSE "general",
              calls |-> 1]

\* ------------------------------------------------------------ survey data

\* survey_data is None, or a dict of the survey's answers.
None == [none |-> TRUE]
Dict(d) == [none |-> FALSE, d |-> d]

\* Python's truth value of survey_data: None and the empty dict are false.
truthy(survey_data) == ~survey_data.none /\ DOMAIN survey_data.d # {}

\* The daily hours of time_mapping, in quarters of an hour
\* (0.25, 0.5, 1.0 and 2.5 hours).
time_mapping ==
    [k \in {"15 minutes", "30 minutes", "1 hour", "2+ hours"} |->
        CASE k = "15 minutes" -> 1
          [] k = "30 minutes" -> 2
          [] k = "1 hour" -> 4
          [] k = "2+ hours" -> 10]

\* _calculate_total_hours rounding a fraction of an hour up.
calculate_total_hours_rounding_up(time_per_day, timeline_days) ==
    LET daily_quarters == Get(time_mapping, time_per_day, 2)
    IN  ((daily_quarters * timeline_days) + 3) \div 4

\* RoadmapGenerator._calculate_total_hours: int(daily_hours * timeline_days),
\* with time_mapping.get(time_per_day, 0.5) as daily_hours.
calculate_total_hours(time_per_day, timeline_days) ==
    LET daily_quarters == Get(time_mapping, time_per_day, 2)
    IN  (daily_quarters * timeline_days) \div 4

\* RoadmapGenerator._calculate_milestone_count
calculate_milestone_count(timeline_days, time_per_day) ==
    IF time_per_day = "15 minutes" THEN max(3, min(8, timeline_days \div 4))
    ELSE IF time_per_day = "2+ hours" THEN max(2, min(6, timeline_days \div 10))
    ELSE max(3, min(7, timeline_days \div 7))

\* ------------------------------------------------------- template library

\* x if is_beginner else (y if is_advanced else z)
pick(is_beginner, is_advanced, x, y, z) ==
    IF is_beginner THEN x ELSE IF is_advanced THEN y ELSE z

\* The "cooking" entry of domain_templates.
cooking_templates(is_beginner, is_advanced) ==
    [titles |-> <<
        pick(is_beginner, is_advanced, "Kitchen Fundamentals", "Advanced Techniques", "Kitchen Setup & Basics"),
        pick(is_beginner, is_advanced, "Essential Cooking Methods", "Complex Flavor Building", "Fundamental Techniques"),
        pick(is_beginner, is_advanced, "Recipe Practice", "Culinary Innovation", "Recipe Mastery"),
        IF ~is_advanced THEN "Advanced Skills" ELSE "Mastery & Teaching Others" >>,
     descriptions |-> <<
        pick(is_beginner, is_advanced, "Learn absolute kitchen basics and safety", "Master advanced culinary techniques", "Set up your kitchen workspace and learn essential knife skills"),
        pick(is_beginner, is_advanced, "Master basic cooking methods step by step", "Develop complex flavor profiles and techniques", "Master fundamental cooking techniques like sautéing and seasoning"),
        pick(is_beginner, is_advanced, "Practice with very simple recipes", "Create innovative dishes and techniques", "Practice core recipes and build confidence"),
        pick(is_beginner, is_advanced, "Learn intermediate techniques", "Teach others and perfect your craft", "Learn advanced techniques and develop your style") >>,
     tasks |-> <<
        pick(is_beginner, is_advanced,
             <<"Learn kitchen safety rules", "Identify basic tools", "Practice holding a knife safely", "Understand ingredient storage">>,
             <<"Master knife techniques", "Understand advanced equipment", "Learn professional kitchen organization", "Study ingredient science">>,
             <<"Organize kitchen tools and workspace", "Learn basic knife cuts and safety", "Practice proper posture and grip", "Stock essential ingredients">>),
        pick(is_beginner, is_advanced,
             <<"Learn to boil water safely", "Practice basic seasoning", "Understand heat levels", "Try simple sautéing">>,
             <<"Master sauce-making", "Perfect temperature control", "Understand flavor chemistry", "Create signature techniques">>,
             <<"Master sautéing and heat control", "Practice seasoning techniques", "Learn timing for multiple dishes", "Understand ingredient interactions">>),
        pick(is_beginner, is_advanced,
             <<"Cook 1-2 very simple recipes", "Focus on following instructions exactly", "Taste and learn", "Document what you tried">>,
             <<"Develop original recipes", "Master complex multi-course meals", "Innovate with ingredients", "Perfect presentation techniques">>,
             <<"Cook 3-5 foundational recipes", "Document cooking notes and adjustments", "Practice mise en place", "Taste and adjust seasoning">>) >>]

\* The "fitness" entry of domain_templates.
fitness_templates(is_beginner, is_advanced) ==
    [titles |-> <<
        pick(is_beginner, is_advanced, "Fitness Basics & Safety", "Performance Optimization", "Foundation & Assessment"),
        pick(is_beginner, is_advanced, "Basic Movement Patterns", "Advanced Training Methods", "Form & Technique"),
        pick(is_beginner, is_advanced, "Simple Exercise Routine", "Competition Preparation", "Building Strength"),
        pick(is_beginner, is_advanced, "Building Consistency", "Coaching Others", "Progressive Training") >>,
     descriptions |-> <<
        pick(is_beginner, is_advanced, "Learn basic fitness concepts and safety", "Optimize performance for competition", "Assess current fitness level and establish foundation"),
        pick(is_beginner, is_advanced, "Master basic bodyweight movements", "Master advanced training techniques", "Learn correct form for all exercises"),
        pick(is_beginner, is_advanced, "Establish a simple, consistent routine", "Prepare for competitive events", "Focus on building base strength"),
        pick(is_beginner, is_advanced, "Build the habit of regular exercise", "Learn to coach and teach others", "Advance to intermediate techniques") >>,
     tasks |-> <<
        pick(is_beginner, is_advanced,
             <<"Learn proper posture", "Understand basic anatomy", "Practice breathing techniques", "Learn warm-up basics">>,
             <<"Analyze biomechanics", "Optimize training periodization", "Master recovery protocols", "Study sports science">>,
             <<"Complete fitness assessment", "Set realistic goals", "Learn basic movements", "Establish workout schedule">>) >>]

\* The "programming" entry of domain_templates.
programming_templates(is_beginner, is_advanced) ==
    [titles |-> <<
        pick(is_beginner, is_advanced, "Computer Basics", "System Architecture", "Environment Setup"),
        pick(is_beginner, is_advanced, "Programming Fundamentals", "Advanced Algorithms", "Programming Fundamentals"),
        pick(is_beginner, is_advanced, "First Simple Project", "Complex System Design", "Project Building"),
        pick(is_beginner, is_advanced, "Learning to Debug", "Open Source Contribution", "Advanced Concepts") >>,
     descriptions |-> <<
        pick(is_beginner, is_advanced, "Learn basic computer operation and concepts", "Master system design and architecture", "Set up development environment and learn basics"),
        pick(is_beginner, is_advanced, "Understand what programming is and basic concepts", "Implement complex algorithms and data structures", "Master fundamental programming concepts"),
        pick(is_beginner, is_advanced, "Build your very first simple program", "Design and build complex distributed systems", "Build real projects to apply knowledge"),
        pick(is_beginner, is_advanced, "Learn to find and fix simple errors", "Contribute to major open source projects", "Learn advanced patterns and best practices") >>,
     tasks |-> <<
        pick(is_beginner, is_advanced,
             <<"Learn to use a computer efficiently", "Understand files and folders", "Learn basic typing", "Understand what code is">>,
             <<"Design scalable architectures", "Optimize system performance", "Implement security best practices", "Master DevOps practices">>,
             <<"Install development tools and IDE", "Learn version control basics", "Write your first 'Hello World'", "Understand basic syntax">>) >>]

\* The template returned when domain is not a key of domain_templates.
\* 'goal_text' is no local of _get_domain_templates, so the first description
\* ends in 'your goal'.
general_templates ==
    [titles |-> <<"Getting Started", "Building Foundation", "Skill Development", "Advanced Practice">>,
     descriptions |-> <<
        "Begin your journey with your goal",
        "Build a solid foundation of knowledge and skills",
        "Develop intermediate capabilities through practice",
        "Apply advanced techniques and master your craft" >>,
     tasks |-> <<
        <<"Research your goal", "Gather resources", "Create learning plan", "Set up workspace">>,
        <<"Study fundamentals", "Practice basic skills", "Join communities", "Find mentors">>,
        <<"Apply knowledge practically", "Seek feedback", "Overcome challenges", "Build confidence">>,
        <<"Master advanced techniques", "Teach others", "Continue learning", "Set new challenges">> >>]

\* RoadmapGenerator._get_domain_templates
get_domain_templates(domain, survey_data) ==
    LET skill_level == IF truthy(survey_data)
                       THEN Get(survey_data.d, "skillLevel", "Some Experience")
                       ELSE "Some Experience"
        is_beginner == skill_level = "Complete Beginner"
        is_advanced == skill_level = "Advanced"
    IN  CASE domain = "cooking" -> cooking_templates(is_beginner, is_advanced)
          [] domain = "fitness" -> fitness_templates(is_beginner, is_advanced)
          [] domain = "programming" -> programming_templates(is_beginner, is_advanced)
          [] OTHER -> general_templates

\* RoadmapGenerator._get_domain_resources
get_domain_resources(domain) ==
    CASE domain = "cooking" ->
            <<"Joshua Weissman YouTube channel", "Salt Fat Acid Heat by Samin Nosrat",
              "Serious Eats website", "Bon Appétit YouTube channel">>
      [] domain = "fitness" ->
            <<"AthleanX YouTube channel", "MyFitnessPal app for tracking",
              "StrongLifts 5x5 program", "Starting Strength book by Mark Rippetoe">>
      [] domain = "programming" ->
            <<"FreeCodeCamp curriculum", "The Odin Project",
              "Traversy Media YouTube channel", "MDN Web Docs for reference">>
      [] domain = "language" ->
            <<"Duolingo app for daily practice", "HelloTalk for language exchange",
              "News in Slow [Language] podcasts", "Anki flashcard app for vocabulary">>
      [] domain = "art" ->
            <<"Proko YouTube channel", "Drawing on the Right Side of the Brain book",
              "Procreate app for digital art", "Schoolism online courses">>
      [] OTHER ->
            <<"Khan Academy for fundamentals", "YouTube channel searches for your topic",
              "Reddit communities for advice", "Local classes or workshops">>

\* ------------------------------------------------- fallback roadmap builder

ramen == <<"r", "a", "m", "e", "n">>

ramen_titles ==
    <<"Ramen Fundamentals", "Broth Mastery", "Noodle Perfection",
      "Toppings & Assembly", "Regional Styles", "Personal Signature">>

skill_mapping ==
    [k \in {"Complete Beginner", "Some Experience", "Intermediate", "Advanced"} |->
        CASE k = "Complete Beginner" -> "Beginner"
          [] k = "Some Experience" -> "Beginner"
          [] k = "Intermediate" -> "Intermediate"
          [] k = "Advanced" -> "Advanced"]

\* num_milestones of _generate_fallback_roadmap
fallback_num_milestones(timeline_days, survey_data) ==
    IF truthy(survey_data)
    THEN calculate_milestone_count(timeline_days, Get(survey_data.d, "timePerDay", "30 minutes"))
    ELSE max(2, min(6, timeline_days \div 7))

\* The milestone the loop of _generate_fallback_roadmap builds for index i
\* (0-based), given that the template lists hold entry index.
fallback_milestone(i, goal_text, domain, days_per_milestone, templates) ==
    LET day == (i * days_per_milestone) + 1
        index == min(i, Len(templates.titles) - 1)
        title == IF domain = "cooking" /\ contains(ramen, lower(goal_text)) /\ i < Len(ramen_titles)
                 THEN ramen_titles[i + 1]
                 ELSE templates.titles[index + 1]
    IN  [id |-> "milestone_" \o ToString(i + 1),
         day |-> day,
         title |-> title,
         description |-> templates.descriptions[index + 1],
         tasks |-> templates.tasks[index + 1],
         resources |-> get_domain_resources(domain),
         completed |-> FALSE]

\* difficulty_level of _generate_fallback_roadmap
fallback_difficulty_level(survey_data) ==
    IF truthy(survey_data) /\ Get(survey_data.d, "skillLevel", "") # ""
    THEN Get(skill_mapping, survey_data.d["skillLevel"], "Intermediate")
    ELSE "Intermediate"

\* RoadmapGenerator._generate_fallback_roadmap. templates[...][index] raises
\* IndexError when a template list is shorter than the titles list.
generate_fallback_roadmap(goal_text, timeline_days, domain, survey_data) ==
    LET num_milestones == fallback_num_milestones(timeline_days, survey_data)
        days_per_milestone == timeline_days \div num_milestones
        templates == get_domain_templates(domain, survey_data)
        index(i) == min(i, Len(templates.titles) - 1)
        in_range(i) == /\ index(i) + 1 \in 1..Len(templates.titles)
                       /\ index(i) + 1 \in 1..Len(templates.descriptions)
                       /\ index(i) + 1 \in 1..Len(templates.tasks)
    IN  IF \E i \in 0..(num_milestones - 1) : ~in_range(i)
        THEN Raise("IndexError")
        ELSE Ok([domain |-> domain,
                 estimated_hours_total |->
                    calculate_total_hours(
                        IF truthy(survey_data)
                        THEN Get(survey_data.d, "timePerDay", "30 minutes")
                        ELSE "30 minutes",
                        timeline_days),
                 difficulty_level |-> fallback_difficulty_level(survey_data),
                 milestones |->
                    [k \in 1..num_milestones |->
                        fallback_milestone(k - 1, goal_text, domain, days_per_milestone, templates)]])

\* ------------------------------------------------------- roadmap validator

\* A JSON value as json.loads returns it: a dict, a list, or a scalar.
Object(fields) == [t |-> "object", fields |-> fields]
Array(items) == [t |-> "array", items |-> items]
Scalar(text) == [t |-> "scalar", text |-> text]

\* validated_milestone keeping the candidate's completed flag.
validated_milestone_keeping_completed(i, n, milestone, timeline_days) ==
    [id |-> Get(milestone, "id", "milestone_" \o ToString(i + 1)),
     day |-> Get(milestone, "day", (i * (timeline_days \div n)) + 1),
     title |-> Get(milestone, "title", "Milestone " \o ToString(i + 1)),
     description |-> Get(milestone, "description", ""),
     tasks |-> Get(milestone, "tasks", <<>>),
     resources |-> Get(milestone, "resources", <<>>),
     completed |-> Get(milestone, "completed", FALSE)]

\* validated_milestone spreading the default days over the whole timeline,
\* (i * timeline_days) // n + 1.
validated_milestone_days_spread(i, n, milestone, timeline_days) ==
    [id |-> Get(milestone, "id", "milestone_" \o ToString(i + 1)),
     day |-> Get(milestone, "day", ((i * timeline_days) \div n) + 1),
     title |-> Get(milestone, "title", "Milestone " \o ToString(i + 1)),
     description |-> Get(milestone, "description", ""),
     tasks |-> Get(milestone, "tasks", <<>>),
     resources |-> Get(milestone, "resources", <<>>),
     completed |-> FALSE]

\* The milestone _validate_roadmap builds from the candidate at index i
\* (0-based) of n candidates.
validated_milestone(i, n, milestone, timeline_days) ==
    [id |-> Get(milestone, "id", "milestone_" \o ToString(i + 1)),
     day |-> Get(milestone, "day", (i * (timeline_days \div n)) + 1),
     title |-> Get(milestone, "title", "Milestone " \o ToString(i + 1)),
     description |-> Get(milestone, "description", ""),
     tasks |-> Get(milestone, "tasks", <<>>),
     resources |-> Get(milestone, "resources", <<>>),
     completed |-> FALSE]

\* _validate_roadmap computing timeline_days // len(milestones) once, before
\* the loop over the candidate milestones.
validate_roadmap_dividing_before_loop(roadmap_data, domain, timeline_days) ==
    IF roadmap_data.t # "object" THEN Raise("AttributeError")
    ELSE LET milestones == Get(roadmap_data.fields, "milestones", Array(<<>>))
         IN  IF milestones.t # "array" THEN Raise("TypeError")
             ELSE IF Len(milestones.items) = 0 THEN Raise("ZeroDivisionError")
             ELSE IF \E k \in 1..Len(milestones.items) : milestones.items[k].t # "object"
             THEN Raise("AttributeError")
             ELSE Ok([domain |-> Get(roadmap_data.fields, "domain", domain),
                      estimated_hours_total |->
                         Get(roadmap_data.fields, "estimated_hours_total", timeline_days * 2),
                      difficulty_level |-> Get(roadmap_data.fields, "difficulty_level", "Beginner"),
                      milestones |->
                         [k \in 1..Len(milestones.items) |->
                            validated_milestone(k - 1, Len(milestones.items),
                                                milestones.items[k].fields, timeline_days)]])

\* RoadmapGenerator._validate_roadmap. roadmap_data.get raises AttributeError
\* when roadmap_data is not a dict, enumerate(milestones) raises TypeError when
\* milestones is not iterable, milestone.get raises AttributeError when a
\* milestone is not a dict.
validate_roadmap(roadmap_data, domain, timeline_days) ==
    IF roadmap_data.t # "object" THEN Raise("AttributeError")
    ELSE LET milestones == Get(roadmap_data.fields, "milestones", Array(<<>>))
         IN  IF milestones.t # "array" THEN Raise("TypeError")
             ELSE IF \E k \in 1..Len(milestones.items) : milestones.items[k].t # "object"
             THEN Raise("AttributeError")
             ELSE Ok([domain |-> Get(roadmap_data.fields, "domain", domain),
                      estimated_hours_total |->
                         Get(roadmap_data.fields, "estimated_hours_total", timeline_days * 2),
                      difficulty_level |-> Get(roadmap_data.fields, "difficulty_level", "Beginner"),
                      milestones |->
                         [k \in 1..Len(milestones.items) |->
                            validated_milestone(k - 1, Len(milestones.items),
                                                milestones.items[k].fields, timeline_days)]])

\* ------------------------------------------------------ roadmap generator

\* json.loads(response_content): the content is JSON text for a value, or not.
json_loads(response_content) ==
    IF response_content.json THEN Ok(response_content.value) ELSE Raise("JSONDecodeError")

\* The try block of generate_roadmap: the completion call, json.loads, the
\* milestone count it prints and _validate_roadmap.
generate_with_model(response, domain, timeline_days) ==
    IF response.kind = "raise" THEN Raise("Exception")
    ELSE LET roadmap_data == json_loads(response.content)
         IN  IF roadmap_data.raised THEN roadmap_data
             ELSE validate_roadmap(roadmap_data.value, domain, timeline_days)

\* RoadmapGenerator.generate_roadmap: what it returns or raises, the path that
\* produced it and the outbound calls it made. cls_response and gen_response
\* are what the collaborator does for the classification prompt and for the
\* roadmap prompt.
generate_roadmap(has_client, goal_text, timeline_days, survey_data, cls_response, gen_response) ==
    IF ~has_client
    THEN LET domain == classify_domain_simple(goal_text)
         IN  [result |-> generate_fallback_roadmap(goal_text, timeline_days, domain, survey_data),
              path |-> "fallback",
              calls |-> 0]
    ELSE LET classified == classify_domain(has_client, goal_text, cls_response)
             domain == classified.domain
             attempt == generate_with_model(gen_response, domain, timeline_days)
         IN  IF ~attempt.raised
             THEN [result |-> attempt, path |-> "model", calls |-> classified.calls + 1]
             ELSE [result |-> generate_fallback_roadmap(goal_text, timeline_days, domain, survey_data),
                   path |-> "fallback",
                   calls |-> classified.calls + 1]

\* milestone_count of _build_roadmap_prompt: the number of milestones the
\* prompt asks the model to create.
build_roadmap_prompt_milestone_count(timeline_days, survey_data) ==
    LET time_per_day == IF truthy(survey_data)
                        THEN Get(survey_data.d, "timePerDay", "30 minutes")
                        ELSE "30 minutes"
    IN  calculate_milestone_count(timeline_days, time_per_day)

\* ------------------------------------------------------------------ inputs

GoalRamenScratch == \* "Learn to make ramen from scratch"
    <<"L", "e", "a", "r", "n", " ", "t", "o", " ", "m", "a", "k", "e", " ",
      "r", "a", "m", "e", "n", " ", "f", "r", "o", "m", " ",
      "s", "c", "r", "a", "t", "c", "h">>
GoalRamen == <<"R", "a", "m", "e", "n">>
GoalFit == <<"G", "e", "t", " ", "F", "I", "T">>
GoalPython == <<"l", "e", "a", "r", "n", " ", "p", "y", "t", "h", "o", "n">>
GoalFrench == <<"s", "p", "e", "a", "k", " ", "F", "r", "e", "n", "c", "h">>
GoalDraw == <<"D", "r", "a", "w">>
GoalChess == <<"c", "h", "e", "s", "s">>
GoalCookApp == <<"c", "o", "o", "k", "i", "n", "g", " ", "a", "p", "p">>

\* Goal texts given to direct calls of the generator.
Goals ==
    {GoalRamenScratch, GoalFit, GoalPython, GoalFrench, GoalDraw, GoalChess, GoalCookApp}

\* Survey data given to direct calls of the generator.
Surveys ==
    { None,
      Dict(EmptyDict),
      Dict([timePerDay |-> "15 minutes"]),
      Dict([skillLevel |-> "Some Experience"]),
      Dict([skillLevel |-> "Complete Beginner", timePerDay |-> "1 hour"]),
      Dict([skillLevel |-> "Advanced", timePerDay |-> "2+ hours"]),
      Dict([skillLevel |-> "Intermediate", timePerDay |-> "30 minutes"]),
      Dict([skillLevel |-> "Expert", timePerDay |-> "all day"]) }

\* No collaborator call is made (no client is configured).
NoResponse == [kind |-> "none"]

\* The collaborator raises.
Raises == [kind |-> "raise"]

\* What the collaborator can do for the classification prompt.
ClsResponses ==
    { Raises,
      [kind |-> "content", content |-> <<" ", "A", "r", "t", "\n">>],
      [kind |-> "content", content |-> <<"c", "o", "o", "k", "i", "n", "g">>],
      [kind |-> "content", content |-> <<"m", "u", "s", "i", "c">>] }

\* Message contents for the roadmap prompt: text that is no JSON, and the JSON
\* text of a value.
NotJson == [kind |-> "content", content |-> [json |-> FALSE]]
Json(value) == [kind |-> "content", content |-> [json |-> TRUE, value |-> value]]

\* A roadmap in the format the prompt asks for, with completed set.
CandidateFull ==
    Object([domain |-> "cooking",
            estimated_hours_total |-> 20,
            difficulty_level |-> "Advanced",
            milestones |-> Array(<<
                Object([id |-> "milestone_1", day |-> 1, title |-> "Start",
                        description |-> "First steps", tasks |-> <<"Read">>,
                        resources |-> <<"Serious Eats website">>, completed |-> TRUE]),
                Object([id |-> "milestone_2", day |-> 7, title |-> "Finish",
                        description |-> "Last steps", tasks |-> <<"Cook">>,
                        resources |-> <<"Serious Eats website">>]) >>)])

\* A roadmap with a domain outside the six, a repeated id and days 0 and 1000.
CandidateOdd ==
    Object([domain |-> "music",
            milestones |-> Array(<<
                Object([id |-> "a", day |-> 0, title |-> "Scales"]),
                Object([id |-> "a", day |-> 1000, title |-> "Chords"]) >>)])

\* n milestones that supply no field.
CandidateBare(n) == Object([milestones |-> Array([k \in 1..n |-> Object(EmptyDict)])])

\* What the collaborator can do for the roadmap prompt.
GenResponses ==
    { Raises,
      NotJson,
      Json(Array(<<>>)),
      Json(Object(EmptyDict)),
      Json(Object([milestones |-> Array(<<>>)])),
      Json(Object([milestones |-> Scalar("5")])),
      Json(Object([milestones |-> Array(<<Scalar("\"Week 1\"")>>)])),
      Json(CandidateFull),
      Json(CandidateOdd),
      Json(CandidateBare(1)),
      Json(CandidateBare(3)),
      Json(CandidateBare(9)) }

\* ------------------------------------------------- direct generator calls

Idle == [fn |-> "none", pc |-> "idle"]
NoRequest == [op |-> "none"]
NoResult == [result |-> "none"]

\* timeline_days given to direct calls of generate_roadmap.
GenerateTimelines == {1, 14, 21, 28, MaxTimeline}

GenerateCalls(has_client) ==
    [fn : {"generate_roadmap"}, pc : {"ready"},
     goal_text : Goals, timeline_days : GenerateTimelines, survey_data : Surveys,
     cls_response : IF has_client THEN ClsResponses ELSE {NoResponse},
     gen_response : IF has_client THEN GenResponses ELSE {NoResponse},
     out : {NoResult}]

FallbackCalls ==
    [fn : {"generate_fallback_roadmap"}, pc : {"ready"},
     goal_text : {GoalRamenScratch, GoalChess}, timeline_days : 1..MaxTimeline,
     domain : valid_domains, survey_data : Surveys,
     out : {NoResult}]

\* Goal texts given to direct calls of _classify_domain_simple: the named
\* goals, two that match several keyword lists in upper case, and every text
\* of at most MaxTextLen characters over a few letters.
GoalFitnessFrench ==
    <<"F", "I", "T", "N", "E", "S", "S", " ", "F", "R", "E", "N", "C", "H">>
GoalDrawApp == <<"D", "r", "a", "w", "i", "n", "g", " ", "A", "p", "p">>
ShortTextLetters == {"a", "A", "r", "t", "T", "p"}
ShortTexts == UNION {[1..n -> ShortTextLetters] : n \in 0..MaxTextLen}
ClassifyCalls ==
    [fn : {"classify_domain_simple"}, pc : {"ready"},
     goal_text : Goals \cup {GoalRamen, GoalFitnessFrench, GoalDrawApp} \cup ShortTexts,
     out : {NoResult}]

\* JSON values given to direct calls of _validate_roadmap: those the roadmap
\* responses carry.
Candidates ==
    {response.content.value :
        response \in {r \in GenResponses : r.kind = "content" /\ r.content.json}}

\* timeline_days given to direct calls of _validate_roadmap.
ValidateTimelines == {1, 2, 14, 30, MaxTimeline}

ValidateCalls ==
    [fn : {"validate_roadmap"}, pc : {"ready"},
     roadmap_data : Candidates, domain : {"cooking", "general"},
     timeline_days : ValidateTimelines,
     out : {NoResult}]

ClassifyDomainCalls(has_client) ==
    [fn : {"classify_domain"}, pc : {"ready"},
     goal_text : Goals,
     cls_response : IF has_client THEN ClsResponses ELSE {NoResponse},
     out : {NoResult}]

TemplateCalls ==
    [fn : {"get_domain_templates"}, pc : {"ready"},
     domain : valid_domains, survey_data : Surveys,
     out : {NoResult}]

PromptCalls ==
    [fn : {"build_roadmap_prompt"}, pc : {"ready"},
     timeline_days : 1..MaxTimeline, survey_data : Surveys,
     out : {NoResult}]

InitCalls ==
    /\ client \in BOOLEAN
    /\ users = <<>>
    /\ roadmaps = <<>>
    /\ last = NoRequest
    /\ sessions = 0
    /\ call \in GenerateCalls(client) \cup FallbackCalls \cup ClassifyCalls
                 \cup ValidateCalls \cup ClassifyDomainCalls(client)
                 \cup TemplateCalls \cup PromptCalls

CallGenerateRoadmap ==
    /\ call.pc = "ready"
    /\ call.fn = "generate_roadmap"
    /\ call' = [call EXCEPT
                  !.pc = "done",
                  !.out = generate_roadmap(client, call.goal_text, call.timeline_days,
                                           call.survey_data, call.cls_response,
                                           call.gen_response)]
    /\ UNCHANGED <<client, users, roadmaps, last, sessions>>

CallGenerateFallbackRoadmap ==
    /\ call.pc = "ready"
    /\ call.fn = "generate_fallback_roadmap"
    /\ call' = [call EXCEPT
                  !.pc = "done",
                  !.out = [result |-> generate_fallback_roadmap(call.goal_text, call.timeline_days,
                                                                call.domain, call.survey_data)]]
    /\ UNCHANGED <<client, users, roadmaps, last, sessions>>

CallClassifyDomainSimple ==
    /\ call.pc = "ready"
    /\ call.fn = "classify_domain_simple"
    /\ call' = [call EXCEPT
                  !.pc = "done",
                  !.out = [result |-> classify_domain_simple(call.goal_text)]]
    /\ UNCHANGED <<client, users, roadmaps, last, sessions>>

CallValidateRoadmap ==
    /\ call.pc = "ready"
    /\ call.fn = "validate_roadmap"
    /\ call' = [call EXCEPT
                  !.pc = "done",
                  !.out = [result |-> validate_roadmap(call.roadmap_data, call.domain,
                                                       call.timeline_days)]]
    /\ UNCHANGED <<client, users, roadmaps, last, sessions>>

CallClassifyDomain ==
    /\ call.pc = "ready"
    /\ call.fn = "classify_domain"
    /\ call' = [call EXCEPT
                  !.pc = "done",
                  !.out = classify_domain(client, call.goal_text, call.cls_response)]
    /\ UNCHANGED <<client, users, roadmaps, last, sessions>>

CallGetDomainTemplates ==
    /\ call.pc = "ready"
    /\ call.fn = "get_domain_templates"
    /\ call' = [call EXCEPT
                  !.pc = "done",
                  !.out = [result |-> get_domain_templates(call.domain, call.survey_data)]]
    /\ UNCHANGED <<client, users, roadmaps, last, sessions>>

CallBuildRoadmapPrompt ==
    /\ call.pc = "ready"
    /\ call.fn = "build_roadmap_prompt"
    /\ call' = [call EXCEPT
                  !.pc = "done",
                  !.out = [milestone_count |->
                              build_roadmap_prompt_milestone_count(call.timeline_days,
                                                                   call.survey_data)]]
    /\ UNCHANGED <<client, users, roadmaps, last, sessions>>

NextCalls ==
    \/ CallGenerateRoadmap
    \/ CallGenerateFallbackRoadmap
    \/ CallClassifyDomainSimple
    \/ CallValidateRoadmap
    \/ CallClassifyDomain
    \/ CallGetDomainTemplates
    \/ CallBuildRoadmapPrompt

SpecCalls == InitCalls /\ [][NextCalls]_vars

\* ---------------------------------------------------------------- storage

\* str(e) of the error a failing storage call raises.
OperationalError == "(sqlite3.OperationalError) database is locked"
IntegrityError == "(sqlite3.IntegrityError) UNIQUE constraint failed: users.email"

\* The storage call of a request that fails, if any.
Faults == {"none", "query", "commit", "refresh"}

\* Column defaults: uuid4 gives an id no other row has.
new_user_id(table) == "u" \o ToString(Len(table) + 1)
new_roadmap_id(table) == "r" \o ToString(Len(table) + 1)

\* db.query(Model).filter(Model.id == id).first(): the rows found.
by_id(table, id) == {k \in 1..Len(table) : table[k].id = id}

\* db.query(RoadmapModel).filter(RoadmapModel.user_id == user_id).all()
RECURSIVE by_user_id(_, _)
by_user_id(table, user_id) ==
    IF table = <<>> THEN <<>>
    ELSE IF Head(table).user_id = user_id
    THEN <<Head(table)>> \o by_user_id(Tail(table), user_id)
    ELSE by_user_id(Tail(table), user_id)

\* ------------------------------------------------------------ API surface

\* convert_db_roadmap_to_graphql giving every milestone the default day.
convert_db_roadmap_to_graphql_default_day(db_roadmap) ==
    [id |-> db_roadmap.id,
     user_id |-> db_roadmap.user_id,
     goal_text |-> db_roadmap.goal_text,
     domain |-> IF db_roadmap.domain = "" THEN "general" ELSE db_roadmap.domain,
     timeline_days |-> db_roadmap.timeline_days,
     milestones |->
        [k \in 1..Len(db_roadmap.milestones) |->
            LET milestone_data == db_roadmap.milestones[k]
            IN  [id |-> Get(milestone_data, "id", ""),
                 day |-> 1,
                 title |-> Get(milestone_data, "title", ""),
                 description |-> Get(milestone_data, "description", ""),
                 tasks |-> Get(milestone_data, "tasks", <<>>),
                 resources |-> Get(milestone_data, "resources", <<>>),
                 completed |-> Get(milestone_data, "completed", FALSE)]],
     status |-> db_roadmap.status]

\* convert_db_roadmap_to_graphql, without created_at. The milestones column
\* holds JSON lists, dicts, strings, integers and booleans, which the JSON
\* column type returns as stored.
convert_db_roadmap_to_graphql(db_roadmap) ==
    [id |-> db_roadmap.id,
     user_id |-> db_roadmap.user_id,
     goal_text |-> db_roadmap.goal_text,
     domain |-> IF db_roadmap.domain = "" THEN "general" ELSE db_roadmap.domain,
     timeline_days |-> db_roadmap.timeline_days,
     milestones |->
        [k \in 1..Len(db_roadmap.milestones) |->
            LET milestone_data == db_roadmap.milestones[k]
            IN  [id |-> Get(milestone_data, "id", ""),
                 day |-> Get(milestone_data, "day", 1),
                 title |-> Get(milestone_data, "title", ""),
                 description |-> Get(milestone_data, "description", ""),
                 tasks |-> Get(milestone_data, "tasks", <<>>),
                 resources |-> Get(milestone_data, "resources", <<>>),
                 completed |-> Get(milestone_data, "completed", FALSE)]],
     status |-> db_roadmap.status]

\* db.close() placed after the return of the inner try block, without finally.
db_close_on_return_only(opened, failed_at) == IF failed_at = "none" THEN opened ELSE 0

\* finally: db.close(): the sessions closed when the inner try block is left,
\* by its return or by a raise at step failed_at.
db_close(opened, failed_at) == opened

\* What a request leaves in last: the caller gets result, or a failure with
\* message error raised at step failed_at. calls counts the outbound calls to
\* the collaborator, opened the sessions made by db = SessionLocal() and
\* closed those closed by db.close().
Returned(op, args, failed_at, result, calls) ==
    [op |-> op, args |-> args, ok |-> TRUE, failed_at |-> failed_at, result |-> result,
     calls |-> calls, opened |-> 1, closed |-> db_close(1, failed_at)]
Failed(op, args, failed_at, error, calls) ==
    [op |-> op, args |-> args, ok |-> FALSE, failed_at |-> failed_at, error |-> error,
     calls |-> calls, opened |-> 1, closed |-> db_close(1, failed_at)]

\* Query.user_count
user_count(table, fault) ==
    IF fault = "query" THEN Returned("user_count", <<>>, "query", 0, 0)
    ELSE Returned("user_count", <<>>, "none", Len(table), 0)

\* Query.roadmap returning a null roadmap for an id that is not stored.
roadmap_null_when_missing(table, roadmap_id, fault) ==
    IF fault = "query"
    THEN Failed("roadmap", <<roadmap_id>>, "query",
                "Failed to get roadmap: " \o OperationalError, 0)
    ELSE IF by_id(table, roadmap_id) = {}
    THEN Returned("roadmap", <<roadmap_id>>, "none", "null", 0)
    ELSE LET db_roadmap == table[CHOOSE k \in by_id(table, roadmap_id) : TRUE]
         IN  Returned("roadmap", <<roadmap_id>>, "none",
                      convert_db_roadmap_to_graphql(db_roadmap), 0)

\* Query.roadmap
roadmap(table, roadmap_id, fault) ==
    IF fault = "query"
    THEN Failed("roadmap", <<roadmap_id>>, "query",
                "Failed to get roadmap: " \o OperationalError, 0)
    ELSE IF by_id(table, roadmap_id) = {}
    THEN Failed("roadmap", <<roadmap_id>>, "roadmap",
                "Failed to get roadmap: " \o "Roadmap " \o roadmap_id \o " not found", 0)
    ELSE LET db_roadmap == table[CHOOSE k \in by_id(table, roadmap_id) : TRUE]
         IN  Returned("roadmap", <<roadmap_id>>, "none",
                      convert_db_roadmap_to_graphql(db_roadmap), 0)

\* Query.user_roadmaps
user_roadmaps(table, user_id, fault) ==
    IF fault = "query" THEN Returned("user_roadmaps", <<user_id>>, "query", <<>>, 0)
    ELSE LET db_roadmaps == by_user_id(table, user_id)
         IN  Returned("user_roadmaps", <<user_id>>, "none",
                      [k \in 1..Len(db_roadmaps) |-> convert_db_roadmap_to_graphql(db_roadmaps[k])],
                      0)

\* pwd_context.hash(password)
hash(password) == "$2b$" \o password

\* create_user over a users table whose email column is not unique.
create_user_without_unique_email(table, email, password, fault) ==
    LET db_user == [id |-> new_user_id(table), email |-> email,
                    hashed_password |-> hash(password)]
        args == <<email>>
    IN  IF fault = "commit"
        THEN [users |-> table,
              last |-> Failed("create_user", args, "commit",
                              "Failed to create user: " \o OperationalError, 0)]
        ELSE IF fault = "refresh"
        THEN [users |-> Append(table, db_user),
              last |-> Failed("create_user", args, "refresh",
                              "Failed to create user: " \o OperationalError, 0)]
        ELSE [users |-> Append(table, db_user),
              last |-> Returned("create_user", args, "none",
                                [id |-> db_user.id, email |-> db_user.email], 0)]

\* Mutation.create_user: the users table and the request's outcome.
create_user(table, email, password, fault) ==
    LET db_user == [id |-> new_user_id(table), email |-> email,
                    hashed_password |-> hash(password)]
        args == <<email>>
    IN  IF \E k \in 1..Len(table) : table[k].email = email
        THEN [users |-> table,
              last |-> Failed("create_user", args, "commit",
                              "Failed to create user: " \o IntegrityError, 0)]
        ELSE IF fault = "commit"
        THEN [users |-> table,
              last |-> Failed("create_user", args, "commit",
                              "Failed to create user: " \o OperationalError, 0)]
        ELSE IF fault = "refresh"
        THEN [users |-> Append(table, db_user),
              last |-> Failed("create_user", args, "refresh",
                              "Failed to create user: " \o OperationalError, 0)]
        ELSE [users |-> Append(table, db_user),
              last |-> Returned("create_user", args, "none",
                                [id |-> db_user.id, email |-> db_user.email], 0)]

\* str(e) of an exception generate_roadmap lets through.
str(exc) == IF exc = "IndexError" THEN "list index out of range" ELSE exc

\* create_roadmap_failed_at without the check that the user exists.
create_roadmap_failed_at_without_user_check(user_table, user_id, generated, fault) ==
    IF fault = "query" THEN "query"
    ELSE IF generated.result.raised THEN "generate"
    ELSE IF fault = "commit" THEN "commit"
    ELSE IF fault = "refresh" THEN "refresh"
    ELSE "none"

\* The step of create_roadmap that raises, if any: the user lookup, the
\* missing user, generate_roadmap, db.commit() or db.refresh().
create_roadmap_failed_at(user_table, user_id, generated, fault) ==
    IF fault = "query" THEN "query"
    ELSE IF by_id(user_table, user_id) = {} THEN "user"
    ELSE IF generated.result.raised THEN "generate"
    ELSE IF fault = "commit" THEN "commit"
    ELSE IF fault = "refresh" THEN "refresh"
    ELSE "none"

\* RoadmapModel(user_id=..., goal_text=..., timeline_days=...,
\* milestones=ai_roadmap["milestones"], domain=ai_roadmap["domain"], status="active")
RoadmapModel(id, user_id, goal_text, timeline_days, ai_roadmap) ==
    [id |-> id,
     user_id |-> user_id,
     goal_text |-> goal_text,
     timeline_days |-> timeline_days,
     milestones |-> ai_roadmap.milestones,
     domain |-> ai_roadmap.domain,
     status |-> "active"]

\* roadmaps_after_create with a commit that raises after the row is written.
roadmaps_after_create_written_on_failed_commit(table, failed_at, user_id, goal_text, timeline_days, generated) ==
    IF failed_at \in {"none", "refresh", "commit"}
    THEN Append(table, RoadmapModel(new_roadmap_id(table), user_id, goal_text, timeline_days,
                                    generated.result.value))
    ELSE table

\* The roadmaps table after create_roadmap: db.add and db.commit run once the
\* user is found and generate_roadmap has returned, and a failing commit
\* writes nothing.
roadmaps_after_create(table, failed_at, user_id, goal_text, timeline_days, generated) ==
    IF failed_at \in {"none", "refresh"}
    THEN Append(table, RoadmapModel(new_roadmap_id(table), user_id, goal_text, timeline_days,
                                    generated.result.value))
    ELSE table

\* create_roadmap without db.add: the record is built and returned, and the
\* commit writes nothing.
create_roadmap_without_add(user_table, table, user_id, input_data, generated, fault) ==
    LET goal_text == input_data.goal_text
        timeline_days == input_data.timeline_days
        failed_at == create_roadmap_failed_at(user_table, user_id, generated, fault)
        after == roadmaps_after_create(table, failed_at, user_id, goal_text, timeline_days,
                                       generated)
        args == <<user_id, goal_text, timeline_days>>
        calls == IF failed_at \in {"query", "user"} THEN 0 ELSE generated.calls
        e == CASE failed_at = "query" -> OperationalError
               [] failed_at = "user" -> "User " \o user_id \o " not found"
               [] failed_at = "generate" -> str(generated.result.exc)
               [] failed_at = "commit" -> OperationalError
               [] failed_at = "refresh" -> OperationalError
    IN  [roadmaps |-> table,
         last |-> IF failed_at = "none"
                  THEN Returned("create_roadmap", args, failed_at,
                                convert_db_roadmap_to_graphql(after[Len(after)]), calls)
                  ELSE Failed("create_roadmap", args, failed_at,
                              "Failed to create roadmap: " \o e, calls)]

\* Mutation.create_roadmap: the roadmaps table and the request's outcome.
\* generated is what generate_roadmap(goal_text, timeline_days), called without
\* survey_data, does once the user is found.
create_roadmap(user_table, table, user_id, input_data, generated, fault) ==
    LET goal_text == input_data.goal_text
        timeline_days == input_data.timeline_days
        failed_at == create_roadmap_failed_at(user_table, user_id, generated, fault)
        after == roadmaps_after_create(table, failed_at, user_id, goal_text, timeline_days,
                                       generated)
        args == <<user_id, goal_text, timeline_days>>
        calls == IF failed_at \in {"query", "user"} THEN 0 ELSE generated.calls
        e == CASE failed_at = "query" -> OperationalError
               [] failed_at = "user" -> "User " \o user_id \o " not found"
               [] failed_at = "generate" -> str(generated.result.exc)
               [] failed_at = "commit" -> OperationalError
               [] failed_at = "refresh" -> OperationalError
    IN  [roadmaps |-> after,
         last |-> IF failed_at = "none"
                  THEN Returned("create_roadmap", args, failed_at,
                                convert_db_roadmap_to_graphql(after[Len(after)]), calls)
                  ELSE Failed("create_roadmap", args, failed_at,
                              "Failed to create roadmap: " \o e, calls)]

\* ------------------------------------------------------------ API requests

\* Inputs of the API requests.
Emails == {"a@wayfound.com", "b@wayfound.com"}
Passwords == {"secret"}
ApiGoals == {GoalFit, GoalChess}
ApiTimelines == {14}
ApiClsResponses ==
    {Raises, [kind |-> "content", content |-> <<" ", "F", "i", "t", "n", "e", "s", "s", "\n">>]}
ApiGenResponses == {Raises, NotJson, Json(Object(EmptyDict)), Json(CandidateOdd)}

\* Ids a request can name: those stored, and one that is not.
UserIds == {users[k].id : k \in 1..Len(users)} \cup {"u0"}
RoadmapIds == {roadmaps[k].id : k \in 1..Len(roadmaps)} \cup {"r0"}

Init ==
    /\ client \in BOOLEAN
    /\ users = <<>>
    /\ roadmaps = <<>>
    /\ last = NoRequest
    /\ sessions = 0
    /\ call = Idle

UserCount ==
    \E fault \in {"none", "query"} :
        /\ last' = user_count(users, fault)
        /\ sessions' = sessions + last'.opened - last'.closed
        /\ UNCHANGED <<client, users, roadmaps, call>>

QueryRoadmap ==
    \E roadmap_id \in RoadmapIds, fault \in {"none", "query"} :
        /\ last' = roadmap(roadmaps, roadmap_id, fault)
        /\ sessions' = sessions + last'.opened - last'.closed
        /\ UNCHANGED <<client, users, roadmaps, call>>

UserRoadmaps ==
    \E user_id \in UserIds, fault \in {"none", "query"} :
        /\ last' = user_roadmaps(roadmaps, user_id, fault)
        /\ sessions' = sessions + last'.opened - last'.closed
        /\ UNCHANGED <<client, users, roadmaps, call>>

CreateUser ==
    /\ Len(users) < MaxUsers
    /\ \E email \in Emails, password \in Passwords, fault \in {"none", "commit", "refresh"} :
        LET done == create_user(users, email, password, fault)
        IN  /\ users' = done.users
            /\ last' = done.last
            /\ sessions' = sessions + done.last.opened - done.last.closed
    /\ UNCHANGED <<client, roadmaps, call>>

\* The table holds at most MaxRoadmaps rows; a request that stores nothing is
\* served on a full table too.
CreateRoadmap ==
    /\ \E goal_text \in ApiGoals, timeline_days \in ApiTimelines,
          cls_response \in (IF client THEN ApiClsResponses ELSE {NoResponse}),
          gen_response \in (IF client THEN ApiGenResponses ELSE {NoResponse}) :
        \E generated \in {generate_roadmap(client, goal_text, timeline_days, None,
                                           cls_response, gen_response)} :
            \E user_id \in UserIds, fault \in Faults :
                LET done == create_roadmap(users, roadmaps, user_id,
                                           [goal_text |-> goal_text,
                                            timeline_days |-> timeline_days],
                                           generated, fault)
                IN  /\ Len(done.roadmaps) <= MaxRoadmaps
                    /\ roadmaps' = done.roadmaps
                    /\ last' = done.last
                    /\ sessions' = sessions + done.last.opened - done.last.closed
    /\ UNCHANGED <<client, users, call>>

Next == UserCount \/ QueryRoadmap \/ UserRoadmaps \/ CreateUser \/ CreateRoadmap

Spec == Init /\ [][Next]_vars

\* ----------------------------------------------------------------- claims

\* A direct call of generate_roadmap has finished.
GenerateDone == call.fn = "generate_roadmap" /\ call.pc = "done"

\* A direct call of _generate_fallback_roadmap has finished.
FallbackDone == call.fn = "generate_fallback_roadmap" /\ call.pc = "done"

\* C1: generate_roadmap is total: for every goal text, timeline_days,
\* survey_data and behaviour of the collaborator it returns a roadmap and
\* raises nothing.
C1_GenerateRoadmapTotal ==
    GenerateDone => ~call.out.result.raised

\* C2: _generate_fallback_roadmap never raises: for every domain of the six,
\* timeline_days and survey_data it returns a roadmap with domain,
\* estimated_hours_total, difficulty_level and milestones.
C2_FallbackNeverRaises ==
    FallbackDone =>
        /\ ~call.out.result.raised
        /\ DOMAIN call.out.result.value =
              {"domain", "estimated_hours_total", "difficulty_level", "milestones"}

\* C3: for "Learn to make ramen from scratch", 28 days and no survey, fallback
\* generation classifies the domain as cooking and returns exactly 4
\* milestones on days 1, 8, 15, 22 titled Ramen Fundamentals, Broth Mastery,
\* Noodle Perfection, Toppings & Assembly, in that order.
C3_RamenScenario ==
    (/\ GenerateDone
     /\ ~client
     /\ call.goal_text = GoalRamenScratch
     /\ call.timeline_days = 28
     /\ call.survey_data = None)
    => /\ ~call.out.result.raised
       /\ call.out.result.value.domain = "cooking"
       /\ LET milestones == call.out.result.value.milestones
          IN  /\ [k \in 1..Len(milestones) |-> milestones[k].day] = <<1, 8, 15, 22>>
              /\ [k \in 1..Len(milestones) |-> milestones[k].title] =
                    <<"Ramen Fundamentals", "Broth Mastery", "Noodle Perfection",
                      "Toppings & Assembly">>

\* C4: with no client configured, create_roadmap for an existing user (and a
\* storage that does not fail) succeeds for every goal text and timeline_days,
\* makes no outbound call and returns the fallback builder's roadmap for the
\* keyword-classified domain, with a non-empty milestone list.
C4_CreateWithoutClientSucceeds ==
    (/\ ~client
     /\ last.op = "create_roadmap"
     /\ last.failed_at \notin {"query", "user", "commit", "refresh"})
    => /\ last.ok
       /\ last.calls = 0
       /\ LET goal_text == last.args[2]
              timeline_days == last.args[3]
              fallback == generate_fallback_roadmap(goal_text, timeline_days,
                                                    classify_domain_simple(goal_text), None)
          IN  /\ ~fallback.raised
              /\ last.result.domain = fallback.value.domain
              /\ last.result.milestones = fallback.value.milestones
              /\ Len(last.result.milestones) > 0

C6_PersistedMilestonesNonEmpty ==
    \A k \in 1..Len(roadmaps) : Len(roadmaps[k].milestones) > 0

\* C7: every milestone of every persisted roadmap has a day d with
\* 1 <= d <= that roadmap's timeline_days.
C7_PersistedDaysInTimeline ==
    \A k \in 1..Len(roadmaps) :
        \A i \in 1..Len(roadmaps[k].milestones) :
            /\ 1 <= roadmaps[k].milestones[i].day
            /\ roadmaps[k].milestones[i].day <= roadmaps[k].timeline_days

\* C8: within every persisted roadmap no two milestones have the same id.
C8_PersistedMilestoneIdsUnique ==
    \A k \in 1..Len(roadmaps) :
        \A i, j \in 1..Len(roadmaps[k].milestones) :
            i # j => roadmaps[k].milestones[i].id # roadmaps[k].milestones[j].id

\* C9: the domain stored on every persisted roadmap is one of cooking,
\* fitness, programming, language, art, general.
C9_PersistedDomainInClosedSet ==
    \A k \in 1..Len(roadmaps) : roadmaps[k].domain \in valid_domains

\* C10: every roadmap generate_roadmap returns, on the model path or the
\* fallback path, has at least 2 and at most 8 milestones.
C10_MilestoneCountBounded ==
    (GenerateDone /\ ~call.out.result.raised)
    => Len(call.out.result.value.milestones) \in 2..8

\* C11: for every timeline_days >= 14, every goal text and no survey data,
\* _generate_fallback_roadmap produces between 2 and 6 milestones whose day
\* values are strictly increasing in list order and all <= timeline_days.
C11_FallbackCountAndDays ==
    (/\ FallbackDone
     /\ call.timeline_days >= 14
     /\ ~truthy(call.survey_data))
    => /\ ~call.out.result.raised
       /\ LET milestones == call.out.result.value.milestones
          IN  /\ Len(milestones) \in 2..6
              /\ \A k \in 1..(Len(milestones) - 1) : milestones[k].day < milestones[k + 1].day
              /\ \A k \in 1..Len(milestones) : milestones[k].day <= call.timeline_days

\* C12: Query.roadmap with an id that matches no stored roadmap never returns
\* a result: in every store state the caller gets a failure, and when the
\* lookup itself ran the failure is the not-found failure naming that id.
C12_MissingRoadmapNotFound ==
    (/\ last.op = "roadmap"
     /\ by_id(roadmaps, last.args[1]) = {})
    => /\ ~last.ok
       /\ last.failed_at \in {"query", "roadmap"}
       /\ last.failed_at = "roadmap" =>
             last.error = "Failed to get roadmap: Roadmap " \o last.args[1] \o " not found"

\* C12 witness: a roadmap is stored and a fetch by another id got the
\* not-found failure.
C12_Witness ==
    /\ last.op = "roadmap"
    /\ Len(roadmaps) = 1
    /\ by_id(roadmaps, last.args[1]) = {}
    /\ last.failed_at = "roadmap"
    /\ ~last.ok

\* C13: create_roadmap with a user_id that matches no stored user fails,
\* makes no outbound call and persists no roadmap; when the user lookup ran,
\* the failure names that user id.
C13_UnknownUserRejected ==
    [][(/\ last'.op = "create_roadmap"
        /\ by_id(users, last'.args[1]) = {})
       => /\ ~last'.ok
          /\ last'.failed_at \in {"query", "user"}
          /\ last'.failed_at = "user" =>
                last'.error = "Failed to create roadmap: User " \o last'.args[1] \o " not found"
          /\ last'.calls = 0
          /\ roadmaps' = roadmaps]_vars

\* C13 witness: with a client and a stored user, a create_roadmap for an
\* unknown user id was rejected.
C13_Witness ==
    /\ client
    /\ Len(users) >= 1
    /\ last.op = "create_roadmap"
    /\ by_id(users, last.args[1]) = {}
    /\ last.failed_at = "user"
    /\ last.calls = 0

\* C14: Query.user_roadmaps with a user_id that matches no stored user gives
\* the caller a failure, not a successful empty result.
C14_UnknownUserRoadmapsFails ==
    (/\ last.op = "user_roadmaps"
     /\ by_id(users, last.args[1]) = {})
    => ~last.ok

C16_TwoCallsNoRetry ==
    (GenerateDone /\ client) => call.out.calls = 2

\* C16 witness: both outbound calls raised and the fallback path was taken
\* after two calls.
C16_Witness ==
    /\ GenerateDone
    /\ client
    /\ call.cls_response = Raises
    /\ call.gen_response = Raises
    /\ call.out.path = "fallback"
    /\ call.out.calls = 2

\* C16 as stated: with a client, each generate_roadmap invocation makes
\* exactly one outbound call.
C16_ExactlyOneCall ==
    (GenerateDone /\ client) => call.out.calls = 1

\* C17: every API request opens exactly one storage session and has closed
\* it when it returns, on the success path and on every error path; after
\* any sequence of completed requests no session is left open.
C17_SessionsReleased ==
    /\ sessions = 0
    /\ last.op \in {"roadmap", "user_roadmaps", "user_count", "create_user", "create_roadmap"}
          => (last.opened = 1 /\ last.closed = 1)

\* C17 witness: a create_roadmap whose generator raised has returned with
\* its session closed.
C17_Witness ==
    /\ last.op = "create_roadmap"
    /\ last.failed_at = "generate"
    /\ ~last.ok
    /\ last.opened = 1
    /\ last.closed = 1
    /\ sessions = 0

\* C18: after any sequence of create_user calls no two stored users share an
\* email: a create_user whose email is already stored fails and leaves the
\* users table unchanged.
C18_UniqueEmails ==
    [][/\ \A i, j \in 1..Len(users') : i # j => users'[i].email # users'[j].email
       /\ (/\ last'.op = "create_user"
           /\ \E k \in 1..Len(users) : users[k].email = last'.args[1])
          => (~last'.ok /\ users' = users)]_vars

\* C18 witness: a create_user for a stored email failed on the unique
\* constraint.
C18_Witness ==
    /\ last.op = "create_user"
    /\ ~last.ok
    /\ last.error = "Failed to create user: " \o IntegrityError
    /\ \E k \in 1..Len(users) : users[k].email = last.args[1]

ClassifyDone == call.fn = "classify_domain_simple" /\ call.pc = "done"

\* C20: _classify_domain_simple returns, for every goal text, the first
\* domain in the order cooking, fitness, programming, language, art whose
\* keyword list has a keyword occurring in the text letter for letter up to
\* case, and general when no list has one.
C20_ClassifierFirstMatch ==
    ClassifyDone =>
        LET text == call.goal_text
            same_letter(c, d) == lower(<<c>>) = lower(<<d>>)
            occurs(word) ==
                \E i \in 1..(Len(text) - Len(word) + 1) :
                    \A j \in 1..Len(word) : same_letter(text[i + j - 1], word[j])
            lists == <<cooking_words, fitness_words, programming_words, language_words,
                       art_words>>
            tags == <<"cooking", "fitness", "programming", "language", "art">>
            hits == {k \in 1..5 : \E word \in lists[k] : occurs(word)}
        IN  /\ call.out.result \in valid_domains
            /\ hits = {} => call.out.result = "general"
            /\ hits # {} => call.out.result = tags[CHOOSE k \in hits : \A m \in hits : k <= m]

\* C20 witness: a text in capitals with a fitness keyword and a language
\* keyword was classified as fitness.
C20_Witness ==
    /\ ClassifyDone
    /\ call.goal_text = GoalFitnessFrench
    /\ call.out.result = "fitness"

\* A direct call of _validate_roadmap has finished.
ValidateDone == call.fn = "validate_roadmap" /\ call.pc = "done"

\* C21: every milestone in the output of _validate_roadmap has
\* completed = false, also when the candidate milestone carries
\* completed = true.
C21_ValidatorForcesNotCompleted ==
    (ValidateDone /\ ~call.out.result.raised)
    => \A k \in 1..Len(call.out.result.value.milestones) :
          call.out.result.value.milestones[k].completed = FALSE

\* C21 witness: a candidate whose first milestone has completed = true was
\* validated.
C21_Witness ==
    /\ ValidateDone
    /\ call.roadmap_data = CandidateFull
    /\ call.roadmap_data.fields.milestones.items[1].fields.completed = TRUE
    /\ ~call.out.result.raised
    /\ call.out.result.value.milestones[1].completed = FALSE

\* C22: given a candidate whose milestones array is empty or absent,
\* _validate_roadmap does not raise and returns a roadmap whose milestone
\* list is empty, for every timeline_days.
C22_ValidatorEmptyMilestones ==
    (/\ ValidateDone
     /\ call.roadmap_data.t = "object"
     /\ Get(call.roadmap_data.fields, "milestones", Array(<<>>)) = Array(<<>>))
    => /\ ~call.out.result.raised
       /\ call.out.result.value.milestones = <<>>

\* C22 witness: a candidate with an empty milestones array was validated for
\* a one-day timeline.
C22_Witness ==
    /\ ValidateDone
    /\ call.roadmap_data = Object([milestones |-> Array(<<>>)])
    /\ call.timeline_days = 1
    /\ ~call.out.result.raised
    /\ call.out.result.value.milestones = <<>>

\* C23: the fallback builder's milestone count is clamp(timeline_days // 4, 3, 8)
\* when the survey's timePerDay is "15 minutes", clamp(timeline_days // 10, 2, 6)
\* when it is "2+ hours", and clamp(timeline_days // 7, 2, 6) in every other
\* case: without a survey, and with a survey that has another or no timePerDay.
C23_FallbackMilestoneCount ==
    (FallbackDone /\ ~call.out.result.raised)
    => LET t == call.timeline_days
           time_per_day == IF call.survey_data.none
                           THEN "absent"
                           ELSE Get(call.survey_data.d, "timePerDay", "absent")
           clamp(x, lo, hi) == max(lo, min(hi, x))
       IN  Len(call.out.result.value.milestones) =
              CASE time_per_day = "15 minutes" -> clamp(t \div 4, 3, 8)
                [] time_per_day = "2+ hours" -> clamp(t \div 10, 2, 6)
                [] OTHER -> clamp(t \div 7, 2, 6)

\* A direct call of classify_domain has finished.
ClassifyDomainDone == call.fn = "classify_domain" /\ call.pc = "done"

\* C24, as the code has it: in classify_domain with a client, when the model
\* call raises the returned domain is what _classify_domain_simple returns
\* for the same goal text, and when the model returns a value outside the six
\* domains the returned domain is general.
C24_ClassifierFallback ==
    (ClassifyDomainDone /\ client)
    => /\ call.cls_response.kind = "raise" =>
             call.out.domain = classify_domain_simple(call.goal_text)
       /\ (/\ call.cls_response.kind = "content"
           /\ \A d \in valid_domains :
                 domain_text[d] # lower(strip(call.cls_response.content)))
          => call.out.domain = "general"

\* C24 witness: the model answered outside the six domains for a goal the
\* keyword matcher classifies as fitness, and general was returned.
C24_Witness ==
    /\ ClassifyDomainDone
    /\ client
    /\ call.goal_text = GoalFit
    /\ call.cls_response = [kind |-> "content", content |-> <<"m", "u", "s", "i", "c">>]
    /\ classify_domain_simple(call.goal_text) = "fitness"
    /\ call.out.domain = "general"

\* C24 as stated: in classify_domain with a client, whenever the model call
\* raises or returns a value outside the six domains, the returned domain
\* equals what _classify_domain_simple returns for the same goal text.
C24_ClassifierFallsBackToKeywords ==
    (/\ ClassifyDomainDone
     /\ client
     /\ \/ call.cls_response.kind = "raise"
        \/ /\ call.cls_response.kind = "content"
           /\ \A d \in valid_domains :
                 domain_text[d] # lower(strip(call.cls_response.content)))
    => call.out.domain = classify_domain_simple(call.goal_text)

\* C25: whenever generate_roadmap returns through the fallback, the returned
\* roadmap is determined by goal_text, timeline_days and survey_data alone:
\* every other invocation with the same three inputs that also returns
\* through the fallback, with or without a client and whatever the
\* collaborator did for the classification and roadmap prompts, returns an
\* equal roadmap.
C25_FallbackDeterminedByInputs ==
    (GenerateDone /\ call.out.path = "fallback" /\ ~call.out.result.raised)
    => \A has_client \in BOOLEAN :
         \A cls_response \in (IF has_client THEN ClsResponses ELSE {NoResponse}) :
           \A gen_response \in (IF has_client THEN GenResponses ELSE {NoResponse}) :
             LET other == generate_roadmap(has_client, call.goal_text, call.timeline_days,
                                           call.survey_data, cls_response, gen_response)
             IN  (other.path = "fallback" /\ ~other.result.raised)
                 => other.result = call.out.result

\* A direct call of _get_domain_templates has returned.
TemplatesDone == call.fn = "get_domain_templates" /\ call.pc = "done"

\* C26: for every domain of the six and every skill level, the titles,
\* descriptions and tasks lists returned by _get_domain_templates have the
\* same length, and every index the fallback builder uses,
\* min(i, len(titles) - 1) for i from 0 up to 7, is a valid index in each of
\* the three lists.
C26_TemplateListsParallel ==
    TemplatesDone
    => LET templates == call.out.result
       IN  /\ Len(templates.titles) = Len(templates.descriptions)
           /\ Len(templates.titles) = Len(templates.tasks)
           /\ \A i \in 0..7 :
                LET index == min(i, Len(templates.titles) - 1)
                IN  /\ index + 1 \in DOMAIN templates.titles
                    /\ index + 1 \in DOMAIN templates.descriptions
                    /\ index + 1 \in DOMAIN templates.tasks

\* C27: for each candidate milestone at 0-based index i of n candidate
\* milestones, _validate_roadmap keeps every field the candidate supplies and
\* fills each missing one with its default: id = "milestone_{i+1}",
\* day = i * (timeline_days // n) + 1, title = "Milestone {i+1}",
\* description = empty string, tasks and resources = empty lists; the output
\* has as many milestones as the candidate, in the same order.
C27_ValidatorKeepsOrDefaults ==
    (ValidateDone /\ ~call.out.result.raised)
    => LET candidates == Get(call.roadmap_data.fields, "milestones", Array(<<>>)).items
           validated == call.out.result.value.milestones
           n == Len(candidates)
       IN  /\ Len(validated) = n
           /\ \A i \in 0..(n - 1) :
                LET supplied == candidates[i + 1].fields
                    kept(key, default) ==
                        validated[i + 1][key] =
                            IF key \in DOMAIN supplied THEN supplied[key] ELSE default
                IN  /\ kept("id", "milestone_" \o ToString(i + 1))
                    /\ kept("day", i * (call.timeline_days \div n) + 1)
                    /\ kept("title", "Milestone " \o ToString(i + 1))
                    /\ kept("description", "")
                    /\ kept("tasks", <<>>)
                    /\ kept("resources", <<>>)

\* C27 witness: three candidates that supply no field were validated for a
\* 14-day timeline, and the third got id "milestone_3", day
\* 2 * (14 // 3) + 1 = 9, title "Milestone 3" and no tasks.
C27_Witness ==
    /\ ValidateDone
    /\ ~call.out.result.raised
    /\ call.roadmap_data = CandidateBare(3)
    /\ call.timeline_days = 14
    /\ call.out.result.value.milestones[3].id = "milestone_3"
    /\ call.out.result.value.milestones[3].day = 9
    /\ call.out.result.value.milestones[3].title = "Milestone 3"
    /\ call.out.result.value.milestones[3].tasks = <<>>

\* Quarter-hours per day the spec gives for the survey of a direct
\* _generate_fallback_roadmap call: 1 for "15 minutes", 2 for "30 minutes",
\* 4 for "1 hour", 10 for "2+ hours", 2 when absent or unrecognized.
C28_DailyQuarters ==
    LET time_per_day == IF call.survey_data.none
                        THEN "absent"
                        ELSE Get(call.survey_data.d, "timePerDay", "absent")
    IN  CASE time_per_day = "15 minutes" -> 1
          [] time_per_day = "30 minutes" -> 2
          [] time_per_day = "1 hour" -> 4
          [] time_per_day = "2+ hours" -> 10
          [] OTHER -> 2

\* C28, as the code has it: the fallback builder's estimated_hours_total is
\* daily_hours(timePerDay) * timeline_days with the fraction dropped: over
\* quarter-hour integers, 4 * estimated_hours_total <= q * timeline_days
\* < 4 * estimated_hours_total + 4, with q in {1, 2, 4, 10}.
C28_EstimatedHoursTruncated ==
    (FallbackDone /\ ~call.out.result.raised)
    => LET total == call.out.result.value.estimated_hours_total
           quarters == C28_DailyQuarters * call.timeline_days
       IN  /\ 4 * total <= quarters
           /\ quarters < 4 * total + 4

\* C28 witness: 15 minutes a day for 14 days is 3.5 hours, and the fallback
\* builder returned 3.
C28_Witness ==
    /\ FallbackDone
    /\ call.survey_data = Dict([timePerDay |-> "15 minutes"])
    /\ call.timeline_days = 14
    /\ ~call.out.result.raised
    /\ call.out.result.value.estimated_hours_total = 3

\* C28 as stated: the fallback builder's estimated_hours_total equals
\* daily_hours(timePerDay) * timeline_days exactly: over quarter-hour
\* integers, 4 * estimated_hours_total = q * timeline_days.
C28_EstimatedHoursExact ==
    (FallbackDone /\ ~call.out.result.raised)
    => 4 * call.out.result.value.estimated_hours_total
          = C28_DailyQuarters * call.timeline_days

\* A direct call of _build_roadmap_prompt has returned.
PromptDone == call.fn = "build_roadmap_prompt" /\ call.pc = "done"

\* C29: for the same timeline_days and the same survey_data (including no
\* survey), the milestone count _build_roadmap_prompt asks the model to
\* create equals the milestone count _generate_fallback_roadmap produces.
C29_PromptCountEqualsFallbackCount ==
    PromptDone
    => call.out.milestone_count
          = fallback_num_milestones(call.timeline_days, call.survey_data)

====
